---- MODULE Spec2Model ----
(***************************************************************************)
(* The WebDAV request gate of webdavd/server.go: webDavServer.ServeHTTP    *)
(* with authenticate and validateUser, run by concurrent request workers   *)
(* that share the connection registry and the WebDAV user cache.           *)
(*                                                                         *)
(* One worker is one goroutine of net/http serving one request at a time.  *)
(* ServeHTTP is cut where it touches shared state (the registry, the       *)
(* cache), so that other workers interleave exactly there; every piece     *)
(* runs the code between two such points to its end, returns included.     *)
(* resp records what ServeHTTP itself writes (http.Error, WriteHeader);    *)
(* what the downstream webdav.Handler writes is not part of this core.     *)
(*                                                                         *)
(* verifyTLSConnection, checkRequestMethod, validateUser and the           *)
(* connection-level part of ServeHTTP are also run alone, as functions of  *)
(* their arguments, under specifications of their own.                     *)
(***************************************************************************)
EXTENDS Integers, Sequences, FiniteSets, TLC

\* Bounds of the model.
MaxTime == 2
MaxLocks == 2

\* HTTP statuses written by ServeHTTP.
StatusMultiStatus == 207
StatusUnauthorized == 401
StatusForbidden == 403
StatusInternalServerError == 500
StatusServiceUnavailable == 503

Workers == {"w1", "w2"}

ProtocolWebDAV == "DAV"
LoginMethodPassword == "password"
SFTPFilesystemProvider == "sftpfs"

\* An address or a header value is a text: a sequence of tokens, each an IP
\* address, a comma or a space. The empty text is <<>>.
IPs == {<<"10.0.0.1">>, <<"10.0.0.66">>}
BannedIPs == {<<"10.0.0.66">>}

\* How the requests the workers serve arrive: the address observed and what
\* the X-Real-IP and X-Forwarded-For headers hold.
NewArrival(remoteAddr, xRealIP, xForwardedFor) ==
    [RemoteAddr |-> remoteAddr, XRealIP |-> xRealIP, XForwardedFor |-> xForwardedFor]

Arrivals ==
    { NewArrival(<<"10.0.0.1">>, <<>>, <<>>),
      NewArrival(<<"10.0.0.66">>, <<>>, <<>>),
      NewArrival(<<"10.0.0.1">>, <<>>, <<"10.0.0.66", ",", " ", "10.0.0.1">>) }

Usernames == {"alice", "bob", "mallory"}

\* The Basic credentials the requests carry: passwords the provider accepts
\* (two of alice, two of bob, one of them empty), an empty password it refuses,
\* and a username it does not know.
Credentials ==
    { [username |-> "alice", password |-> "secret"],
      [username |-> "alice", password |-> "other"],
      [username |-> "alice", password |-> ""],
      [username |-> "bob", password |-> "secret"],
      [username |-> "bob", password |-> ""],
      [username |-> "mallory", password |-> "secret"] }

ErrConnectionDenied == "connection denied"
ErrGenericFailure == "failure"
err401 == "Unauthorized"
ErrInvalidCredentials == "invalid credentials"
ErrRecordNotFound == "record not found"
ErrGetFilesystem == "filesystem error"
ErrHomeDir == "cannot login user with invalid home dir"
ErrProtocol == "Protocol DAV is not allowed for user"
ErrLoginMethod == "Password login method is not allowed for user"
ErrSessions == "too many open sessions"
ErrOverlap == "overlapping mapped folders are allowed only with quota tracking disabled"
ErrAddress == "Login for user is not allowed from this address"
ErrChainUnverifiable == "TLS connection cannot be verified: unable to get verification chain"
ErrCrtRevoked == "your certificate has been revoked"
NoError == ""

\* A nil *x509.Certificate.
NilCrt == "nil"

\* A home directory is a sequence of path elements; "/" first makes it absolute.
AbsHome == <<"/", "srv", "/", "dav">>
RelHome == <<"relative", "/", "path">>

\* dataprovider.User, the fields ServeHTTP, authenticate and validateUser read.
NewUser(name, home, deniedProto, deniedLogin, maxSessions, overlapped, allowedIP, fsProvider) ==
    [Username |-> name, HomeDir |-> home, DeniedProtocols |-> deniedProto,
     DeniedLoginMethods |-> deniedLogin, MaxSessions |-> maxSessions,
     OverlappedMappedPaths |-> overlapped, AllowedIP |-> allowedIP,
     FsProvider |-> fsProvider]

\* var user dataprovider.User
ZeroUser == NewUser("", <<>>, {}, {}, 0, FALSE, {}, "")

\* The identity provider's records and the passwords it accepts for each.
Users ==
    [u \in {"alice", "bob"} |->
        IF u = "alice"
        THEN NewUser("alice", AbsHome, {}, {}, 1, FALSE, {}, SFTPFilesystemProvider)
        ELSE NewUser("bob", AbsHome, {}, {}, 0, TRUE, {}, "osfs")]

AcceptedPasswords ==
    [u \in {"alice", "bob"} |-> IF u = "alice" THEN {"secret", "other"} ELSE {"secret", ""}]

\* The configurations the server runs under: every limit and feature off, and
\* every one on (one connection in all, cache entries that expire, a cache of
\* one entry, quota tracking, a proxy protocol).
NewConfig(maxTotal, expirationTime, maxSize, quotaTracking, proxyProtocol) ==
    [MaxTotalConnections |-> maxTotal, ExpirationTime |-> expirationTime,
     MaxSize |-> maxSize, QuotaTracking |-> quotaTracking, ProxyProtocol |-> proxyProtocol]

Configs ==
    { NewConfig(0, 0, 0, 0, 0), NewConfig(1, 1, 1, 1, 1) }

\* A request as it arrives: r.Method, the values of its Depth header, and what
\* the cleaned path is to the filesystem ("dir", "file", or "error" when Stat fails).
NewRequest(method, depth, target) == [Method |-> method, Depth |-> depth, target |-> target]

\* The requests the workers serve.
Requests ==
    { NewRequest("GET", <<>>, "dir"), NewRequest("HEAD", <<>>, "dir"),
      NewRequest("HEAD", <<>>, "file"), NewRequest("HEAD", <<>>, "error"),
      NewRequest("PUT", <<>>, "dir") }

----------------------------------------------------------------------------
\* Collaborators of other packages (common, dataprovider, utils).

\* filepath.IsAbs
IsAbs(p) == Len(p) > 0 /\ p[1] = "/"

\* common.Connections.GetActiveSessions
GetActiveSessions(conns, username) ==
    Cardinality({c \in conns : c.username = username})

\* common.Connections.IsNewConnectionAllowed
IsNewConnectionAllowed(conns, maxTotal) ==
    maxTotal = 0 \/ Cardinality(conns) < maxTotal

\* common.IsBanned
IsBanned(ip) == ip \in BannedIPs

\* user.IsLoginMethodAllowed(LoginMethodPassword, nil)
IsLoginMethodAllowed(user, method) == method \notin user.DeniedLoginMethods

\* user.IsLoginFromAddrAllowed
IsLoginFromAddrAllowed(user, addr) == user.AllowedIP = {} \/ addr \in user.AllowedIP

\* dataprovider.CachedUser and the empty slot of the cache.
NoEntry ==
    [present |-> FALSE, User |-> ZeroUser, Password |-> "", LockSystem |-> 0, Expiration |-> 0]

\* CachedUser.IsExpired: an unset expiration (0) never expires; otherwise the
\* entry is valid only while its expiration is strictly in the future.
IsExpired(c, t) == c.Expiration # 0 /\ c.Expiration <= t

\* dataprovider.CheckUserAndPass
CheckUserAndPass(username, password) ==
    IF username \notin DOMAIN Users
    THEN [err |-> ErrRecordNotFound, user |-> ZeroUser]
    ELSE IF password \notin AcceptedPasswords[username]
    THEN [err |-> ErrInvalidCredentials, user |-> ZeroUser]
    ELSE [err |-> NoError, user |-> Users[username]]

\* dataprovider.RemoveCachedWebDAVUser
RemoveCachedWebDAVUser(c, username) ==
    [u \in DOMAIN c |-> IF u = username THEN NoEntry ELSE c[u]]

\* dataprovider.CacheWebDAVUser: the caches the insertion may leave. With a
\* maximum size, an entry of another user is evicted when the cache is full.
CacheWebDAVUser(c, entry, maxSize) ==
    LET others == {u \in DOMAIN c : c[u].present /\ u # entry.User.Username}
        store(d) == [u \in DOMAIN d |-> IF u = entry.User.Username THEN entry ELSE d[u]]
    IN  IF maxSize > 0 /\ Cardinality(others) >= maxSize
        THEN {store(RemoveCachedWebDAVUser(c, v)) : v \in others}
        ELSE {store(c)}

----------------------------------------------------------------------------
\* What a request leaves behind: the response ServeHTTP writes, the reports
\* made to updateLoginMetrics, and the calls of the step it is in.

NoResponse ==
    [status |-> 0, wwwAuthenticate |-> "", contentType |-> "", body |-> "", sessions |-> 0]

\* http.Error(w, msg, code)
httpError(w, msg, code) ==
    [w EXCEPT !.status = code, !.body = msg, !.contentType = "text/plain; charset=utf-8"]

\* An error value: its text and, for the session quota, the count it prints.
NewError(msg, n) == [msg |-> msg, sessions |-> n]

\* updateLoginMetrics adding the same defender event for every error.
updateLoginMetricsOneEvent(reports, ip, err) ==
    Append(reports,
           [err |-> err, ip |-> ip,
            event |-> IF err = NoError THEN "" ELSE "HostEventLoginFailed",
            calls |-> IF err = NoError
                      THEN <<"AddLoginAttempt", "AddLoginResult", "ExecutePostLoginHook">>
                      ELSE <<"AddLoginAttempt", "ConnectionFailedLog", "AddDefenderEvent",
                             "AddLoginResult", "ExecutePostLoginHook">>])

\* updateLoginMetrics: one more report, with the source address, the defender
\* event it adds (none for a success) and the calls it makes, in order.
updateLoginMetrics(reports, ip, err) ==
    Append(reports,
           [err |-> err, ip |-> ip,
            event |-> IF err = NoError THEN ""
                      ELSE IF err = ErrRecordNotFound THEN "HostEventUserNotFound"
                      ELSE "HostEventLoginFailed",
            calls |-> IF err = NoError
                      THEN <<"AddLoginAttempt", "AddLoginResult", "ExecutePostLoginHook">>
                      ELSE <<"AddLoginAttempt", "ConnectionFailedLog", "AddDefenderEvent",
                             "AddLoginResult", "ExecutePostLoginHook">>])

\* strings.Index(s, ", "): the first position of a comma followed by a space,
\* counted from 0; -1 when there is none.
IndexCommaSpace(s) ==
    LET at == {i \in 1..(Len(s) - 1) : s[i] = "," /\ s[i + 1] = " "}
    IN  IF at = {} THEN -1 ELSE (CHOOSE i \in at : \A j \in at : i <= j) - 1

\* strings.TrimSpace
TrimSpace(s) ==
    LET notSpace == {i \in 1..Len(s) : s[i] # " "}
        first == CHOOSE i \in notSpace : \A j \in notSpace : i <= j
        last == CHOOSE i \in notSpace : \A j \in notSpace : i >= j
    IN  IF notSpace = {} THEN <<>> ELSE SubSeq(s, first, last)

\* checkRemoteAddress: r.RemoteAddr as it leaves it. xRealIP and xForwardedFor
\* are what r.Header.Get returns for the two headers.
checkRemoteAddress(proxyProtocol, remoteAddr, xRealIP, xForwardedFor) ==
    LET found == IndexCommaSpace(xForwardedFor)
        i == IF found = -1 THEN Len(xForwardedFor) ELSE found
        ip == IF xRealIP # <<>> THEN xRealIP
              ELSE IF xForwardedFor # <<>> THEN TrimSpace(SubSeq(xForwardedFor, 1, i))
              ELSE <<>>
    IN  IF proxyProtocol # 0 THEN remoteAddr
        ELSE IF Len(ip) > 0 THEN ip
        ELSE remoteAddr

\* checkConnection with the ban list consulted on the address as observed,
\* before checkRemoteAddress.
checkConnectionBanFirst(allowed, proxyProtocol, remoteAddr, xRealIP, xForwardedFor, hookErr) ==
    LET addr == checkRemoteAddress(proxyProtocol, remoteAddr, xRealIP, xForwardedFor)
    IN  IF IsBanned(remoteAddr)
        THEN [exit |-> "banned", calls |-> <<"IsBanned">>, RemoteAddr |-> remoteAddr,
              resp |-> httpError(NoResponse, ErrConnectionDenied, StatusForbidden)]
        ELSE IF ~allowed
        THEN [exit |-> "limit", calls |-> <<"IsBanned", "IsNewConnectionAllowed">>,
              RemoteAddr |-> remoteAddr,
              resp |-> httpError(NoResponse, ErrConnectionDenied, StatusServiceUnavailable)]
        ELSE IF hookErr
        THEN [exit |-> "hook", RemoteAddr |-> addr,
              calls |-> <<"IsBanned", "IsNewConnectionAllowed", "checkRemoteAddress",
                          "ExecutePostConnectHook">>,
              resp |-> httpError(NoResponse, ErrConnectionDenied, StatusForbidden)]
        ELSE [exit |-> "", RemoteAddr |-> addr,
              calls |-> <<"IsBanned", "IsNewConnectionAllowed", "checkRemoteAddress",
                          "ExecutePostConnectHook">>,
              resp |-> NoResponse]

\* ServeHTTP up to the call of authenticate: the connection ceiling, the
\* address of the request, the ban list and the post-connect hook. exit names
\* the return statement taken, "" when none is; RemoteAddr is r.RemoteAddr then.
checkConnection(allowed, proxyProtocol, remoteAddr, xRealIP, xForwardedFor, hookErr) ==
    LET addr == checkRemoteAddress(proxyProtocol, remoteAddr, xRealIP, xForwardedFor)
    IN  IF ~allowed
        THEN [exit |-> "limit", calls |-> <<"IsNewConnectionAllowed">>,
              RemoteAddr |-> remoteAddr,
              resp |-> httpError(NoResponse, ErrConnectionDenied, StatusServiceUnavailable)]
        ELSE IF IsBanned(addr)
        THEN [exit |-> "banned", RemoteAddr |-> addr,
              calls |-> <<"IsNewConnectionAllowed", "checkRemoteAddress", "IsBanned">>,
              resp |-> httpError(NoResponse, ErrConnectionDenied, StatusForbidden)]
        ELSE IF hookErr
        THEN [exit |-> "hook", RemoteAddr |-> addr,
              calls |-> <<"IsNewConnectionAllowed", "checkRemoteAddress", "IsBanned",
                          "ExecutePostConnectHook">>,
              resp |-> httpError(NoResponse, ErrConnectionDenied, StatusForbidden)]
        ELSE [exit |-> "", RemoteAddr |-> addr,
              calls |-> <<"IsNewConnectionAllowed", "checkRemoteAddress", "IsBanned",
                          "ExecutePostConnectHook">>,
              resp |-> NoResponse]

\* cacheLookup falling through to the full verification on a differing password.
cacheLookupFallThrough(found, cachedUser, password, t) ==
    IF ~found THEN "miss"
    ELSE IF IsExpired(cachedUser, t) THEN "expired"
    ELSE IF password # "" /\ cachedUser.Password = password THEN "hit"
    ELSE "miss"

\* cacheLookup without the expiration check.
cacheLookupNoExpiry(found, cachedUser, password, t) ==
    IF ~found THEN "miss"
    ELSE IF password # "" /\ cachedUser.Password = password THEN "hit"
    ELSE "mismatch"

\* authenticate, the decision taken on the result of GetCachedWebDAVUser.
cacheLookup(found, cachedUser, password, t) ==
    IF ~found THEN "miss"
    ELSE IF IsExpired(cachedUser, t) THEN "expired"
    ELSE IF password # "" /\ cachedUser.Password = password THEN "hit"
    ELSE "mismatch"

\* cachesUser without the test of the password.
cachesUserAlways(password) == TRUE

\* cachesUser with the test of the password inverted.
cachesUserInverted(password) == password = ""

\* authenticate, whether a verified login is cached.
cachesUser(password) == password # ""

\* authenticate, the cache entry built after a successful verification.
newCachedUser(u, password, ls, t, expirationTime) ==
    [present |-> TRUE, User |-> u, Password |-> password, LockSystem |-> ls,
     Expiration |-> IF expirationTime > 0 THEN t + expirationTime ELSE 0]

\* ServeHTTP, the answer to an error of authenticate.
onAuthenticateError(w, reports) ==
    [resp |-> httpError([w EXCEPT !.wwwAuthenticate = "Basic realm=\"SFTPGo WebDAV\""],
                        err401, StatusUnauthorized),
     reports |-> reports]

\* onValidateError answering as an authentication failure does.
onValidateErrorUnauthorized(w, reports, ip, err) ==
    [resp |-> [httpError(w, err.msg, StatusUnauthorized) EXCEPT !.sessions = err.sessions],
     reports |-> updateLoginMetrics(reports, ip, err.msg)]

\* ServeHTTP, the answer to an error of validateUser.
onValidateError(w, reports, ip, err) ==
    [resp |-> [httpError(w, err.msg, StatusForbidden) EXCEPT !.sessions = err.sessions],
     reports |-> updateLoginMetrics(reports, ip, err.msg)]

\* ServeHTTP, the answer to an error of user.GetFilesystem.
onFilesystemError(w, reports, ip) ==
    [resp |-> httpError(w, ErrGetFilesystem, StatusInternalServerError),
     reports |-> updateLoginMetrics(reports, ip, ErrGetFilesystem)]

\* validateUser without the check of overlapping mapped paths.
validateUserNoOverlapCheck(u, addr, conns, quotaTracking) ==
    LET activeSessions == GetActiveSessions(conns, u.Username)
        c1 == <<"xid.New", "IsAbs">>
        c2 == Append(c1, "DeniedProtocols")
        c3 == Append(c2, "IsLoginMethodAllowed")
        c4 == IF u.MaxSessions > 0 THEN Append(c3, "GetActiveSessions") ELSE c3
        c7 == Append(c4, "IsLoginFromAddrAllowed")
    IN  IF ~IsAbs(u.HomeDir)
        THEN [err |-> NewError(ErrHomeDir, 0), calls |-> c1]
        ELSE IF ProtocolWebDAV \in u.DeniedProtocols
        THEN [err |-> NewError(ErrProtocol, 0), calls |-> c2]
        ELSE IF ~IsLoginMethodAllowed(u, LoginMethodPassword)
        THEN [err |-> NewError(ErrLoginMethod, 0), calls |-> c3]
        ELSE IF u.MaxSessions > 0 /\ activeSessions >= u.MaxSessions
        THEN [err |-> NewError(ErrSessions, activeSessions), calls |-> c4]
        ELSE IF ~IsLoginFromAddrAllowed(u, addr)
        THEN [err |-> NewError(ErrAddress, 0), calls |-> c7]
        ELSE [err |-> NewError(NoError, 0), calls |-> c7]

\* validateUser with the session quota compared by > instead of >=.
validateUserOffByOne(u, addr, conns, quotaTracking) ==
    LET activeSessions == GetActiveSessions(conns, u.Username)
        c3 == <<"xid.New", "IsAbs", "DeniedProtocols", "IsLoginMethodAllowed">>
        c4 == IF u.MaxSessions > 0 THEN Append(c3, "GetActiveSessions") ELSE c3
        c5 == Append(c4, "GetQuotaTracking")
        c6 == IF quotaTracking > 0 THEN Append(c5, "HasOverlappedMappedPaths") ELSE c5
        c7 == Append(c6, "IsLoginFromAddrAllowed")
    IN  IF ~IsAbs(u.HomeDir)
        THEN [err |-> NewError(ErrHomeDir, 0), calls |-> SubSeq(c3, 1, 2)]
        ELSE IF ProtocolWebDAV \in u.DeniedProtocols
        THEN [err |-> NewError(ErrProtocol, 0), calls |-> SubSeq(c3, 1, 3)]
        ELSE IF ~IsLoginMethodAllowed(u, LoginMethodPassword)
        THEN [err |-> NewError(ErrLoginMethod, 0), calls |-> c3]
        ELSE IF u.MaxSessions > 0 /\ activeSessions > u.MaxSessions
        THEN [err |-> NewError(ErrSessions, activeSessions), calls |-> c4]
        ELSE IF quotaTracking > 0 /\ u.OverlappedMappedPaths
        THEN [err |-> NewError(ErrOverlap, 0), calls |-> c6]
        ELSE IF ~IsLoginFromAddrAllowed(u, addr)
        THEN [err |-> NewError(ErrAddress, 0), calls |-> c7]
        ELSE [err |-> NewError(NoError, 0), calls |-> c7]

\* validateUser with the session quota checked first.
validateUserQuotaFirst(u, addr, conns, quotaTracking) ==
    LET activeSessions == GetActiveSessions(conns, u.Username)
        c0 == <<"xid.New">>
        c1 == IF u.MaxSessions > 0 THEN Append(c0, "GetActiveSessions") ELSE c0
        c2 == Append(c1, "IsAbs")
        c3 == Append(c2, "DeniedProtocols")
        c4 == Append(c3, "IsLoginMethodAllowed")
        c5 == Append(c4, "GetQuotaTracking")
        c6 == IF quotaTracking > 0 THEN Append(c5, "HasOverlappedMappedPaths") ELSE c5
        c7 == Append(c6, "IsLoginFromAddrAllowed")
    IN  IF u.MaxSessions > 0 /\ activeSessions >= u.MaxSessions
        THEN [err |-> NewError(ErrSessions, activeSessions), calls |-> c1]
        ELSE IF ~IsAbs(u.HomeDir)
        THEN [err |-> NewError(ErrHomeDir, 0), calls |-> c2]
        ELSE IF ProtocolWebDAV \in u.DeniedProtocols
        THEN [err |-> NewError(ErrProtocol, 0), calls |-> c3]
        ELSE IF ~IsLoginMethodAllowed(u, LoginMethodPassword)
        THEN [err |-> NewError(ErrLoginMethod, 0), calls |-> c4]
        ELSE IF quotaTracking > 0 /\ u.OverlappedMappedPaths
        THEN [err |-> NewError(ErrOverlap, 0), calls |-> c6]
        ELSE IF ~IsLoginFromAddrAllowed(u, addr)
        THEN [err |-> NewError(ErrAddress, 0), calls |-> c7]
        ELSE [err |-> NewError(NoError, 0), calls |-> c7]

\* validateUser: the first failing check decides; calls lists what was evaluated.
validateUser(u, addr, conns, quotaTracking) ==
    LET activeSessions == GetActiveSessions(conns, u.Username)
        c1 == <<"xid.New", "IsAbs">>
        c2 == Append(c1, "DeniedProtocols")
        c3 == Append(c2, "IsLoginMethodAllowed")
        c4 == IF u.MaxSessions > 0 THEN Append(c3, "GetActiveSessions") ELSE c3
        c5 == Append(c4, "GetQuotaTracking")
        c6 == IF quotaTracking > 0 THEN Append(c5, "HasOverlappedMappedPaths") ELSE c5
        c7 == Append(c6, "IsLoginFromAddrAllowed")
    IN  IF ~IsAbs(u.HomeDir)
        THEN [err |-> NewError(ErrHomeDir, 0), calls |-> c1]
        ELSE IF ProtocolWebDAV \in u.DeniedProtocols
        THEN [err |-> NewError(ErrProtocol, 0), calls |-> c2]
        ELSE IF ~IsLoginMethodAllowed(u, LoginMethodPassword)
        THEN [err |-> NewError(ErrLoginMethod, 0), calls |-> c3]
        ELSE IF u.MaxSessions > 0 /\ activeSessions >= u.MaxSessions
        THEN [err |-> NewError(ErrSessions, activeSessions), calls |-> c4]
        ELSE IF quotaTracking > 0 /\ u.OverlappedMappedPaths
        THEN [err |-> NewError(ErrOverlap, 0), calls |-> c6]
        ELSE IF ~IsLoginFromAddrAllowed(u, addr)
        THEN [err |-> NewError(ErrAddress, 0), calls |-> c7]
        ELSE [err |-> NewError(NoError, 0), calls |-> c7]

\* certMgr.IsRevoked(crt, caCrt): whether the manager's revocation lists hold
\* crt as revoked under the authority caCrt.
IsRevoked(revoked, crt, caCrt) == <<crt, caCrt>> \in revoked

\* verifyTLSConnection asking only about the first verified chain.
verifyTLSConnectionFirstChain(hasCertMgr, peerCertificates, verifiedChains, revoked) ==
    IF ~hasCertMgr THEN NoError
    ELSE LET clientCrt == IF Len(peerCertificates) > 0 THEN peerCertificates[1] ELSE NilCrt
             chain == verifiedChains[1]
             caCrt == IF Len(chain) > 0 THEN chain[Len(chain)] ELSE NilCrt
         IN  IF Len(verifiedChains) = 0 THEN ErrChainUnverifiable
             ELSE IF IsRevoked(revoked, clientCrt, caCrt) THEN ErrCrtRevoked
             ELSE NoError

\* verifyTLSConnection: the error it returns for a handshake state. The loop
\* over the verified chains returns at the first chain under whose last
\* certificate the client certificate is revoked.
verifyTLSConnection(hasCertMgr, peerCertificates, verifiedChains, revoked) ==
    IF ~hasCertMgr THEN NoError
    ELSE LET clientCrt == IF Len(peerCertificates) > 0 THEN peerCertificates[1] ELSE NilCrt
             RECURSIVE loop(_)
             loop(i) ==
                 IF i > Len(verifiedChains) THEN NoError
                 ELSE LET verifiedChain == verifiedChains[i]
                          caCrt == IF Len(verifiedChain) > 0
                                   THEN verifiedChain[Len(verifiedChain)] ELSE NilCrt
                      IN  IF IsRevoked(revoked, clientCrt, caCrt) THEN ErrCrtRevoked
                          ELSE loop(i + 1)
         IN  IF Len(verifiedChains) = 0 THEN ErrChainUnverifiable
             ELSE loop(1)

\* http.Header.Get: the first value of a header, "" when it has none.
HeaderGet(values) == IF Len(values) = 0 THEN "" ELSE values[1]

\* http.Header.Add: one more value of a header.
HeaderAdd(values, v) == Append(values, v)

\* checkRequestMethod rewriting a HEAD of a directory as it rewrites a GET.
checkRequestMethodHeadRewritten(method, depth, statErr, isDir) ==
    IF method \in {"GET", "HEAD"}
    THEN IF ~statErr /\ isDir
         THEN [handled |-> FALSE, Method |-> "PROPFIND",
               Depth |-> IF HeaderGet(depth) = "" THEN HeaderAdd(depth, "1") ELSE depth,
               calls |-> <<"Stat">>]
         ELSE [handled |-> FALSE, Method |-> method, Depth |-> depth, calls |-> <<"Stat">>]
    ELSE [handled |-> FALSE, Method |-> method, Depth |-> depth, calls |-> <<>>]

\* checkRequestMethod: whether ServeHTTP answers itself, and the method and
\* the Depth header it leaves in the request. statErr and isDir are the
\* result of connection.Stat on the cleaned path.
checkRequestMethod(method, depth, statErr, isDir) ==
    IF method \in {"GET", "HEAD"}
    THEN IF ~statErr /\ isDir
         THEN IF method = "HEAD"
              THEN [handled |-> TRUE, Method |-> method, Depth |-> depth,
                    calls |-> <<"Stat">>]
              ELSE [handled |-> FALSE, Method |-> "PROPFIND",
                    Depth |-> IF HeaderGet(depth) = "" THEN HeaderAdd(depth, "1") ELSE depth,
                    calls |-> <<"Stat">>]
         ELSE [handled |-> FALSE, Method |-> method, Depth |-> depth, calls |-> <<"Stat">>]
    ELSE [handled |-> FALSE, Method |-> method, Depth |-> depth, calls |-> <<>>]

\* Connections.Add holding the session quota against the registry it adds to.
addConnectionWithinQuota(conns, id, u) ==
    IF u.MaxSessions > 0 /\ GetActiveSessions(conns, u.Username) >= u.MaxSessions
    THEN conns
    ELSE conns \cup {[id |-> id, username |-> u.Username]}

\* common.Connections.Add(connection), line 181
addConnection(conns, id, u) == conns \cup {[id |-> id, username |-> u.Username]}

\* Connections.Remove called at the end of ServeHTTP instead of deferred.
removeOnReturnOnly(conns, id, panicked) ==
    IF panicked THEN conns ELSE {c \in conns : c.id # id}

\* defer common.Connections.Remove(connection.GetID()): runs on return and on panic.
deferredRemove(conns, id, panicked) == {c \in conns : c.id # id}

\* defer func() { recover() ... }: a panic becomes the generic 500 answer.
deferredRecover(w, panicked) ==
    IF panicked THEN httpError(w, ErrGenericFailure, StatusInternalServerError) ELSE w

----------------------------------------------------------------------------
\* State.

VARIABLES
    config,       \* s.config, common.Config and the provider's settings
    sequential,   \* whether requests are admitted one at a time
    now,          \* time.Now()
    cache,        \* dataprovider's WebDAV user cache, by username
    connections,  \* common.Connections, the registry
    nextLock,     \* the next lock system webdav.NewMemLS() allocates
    pc,           \* where each worker stands in ServeHTTP
    remoteAddr,   \* r.RemoteAddr of the worker's request
    cred,         \* authenticate's username and password
    cachedUser,   \* authenticate's cachedUser: the entry got from the cache
                  \* (line 210) or the entry built for it (line 229)
    user,         \* ServeHTTP's user
    lockSystem,   \* ServeHTTP's lockSystem
    resp,         \* what ServeHTTP wrote to w
    reports,      \* the request's calls of updateLoginMetrics
    calls,        \* the calls of the step the request is in, in order
    exit,         \* the return statement the request took
    authLog,      \* sequential requests: the last returns of authenticate
    request,      \* the request a worker served: as it was read and as it was left
    probe         \* one call of a function on arguments of its own

vars ==
    <<config, sequential, now, cache, connections, nextLock, pc, remoteAddr, cred,
      cachedUser, user, lockSystem, resp, reports, calls, exit, authLog, request, probe>>

shared == <<config, sequential, now, cache, connections, nextLock>>

NoCred == [username |-> "", password |-> ""]
NoRequest == [arrived |-> NewRequest("", <<>>, ""), Method |-> "", Depth |-> <<>>]
NoProbe ==
    [user |-> ZeroUser, remoteAddr |-> <<>>, conns |-> {}, quotaTracking |-> 0,
     done |-> FALSE, err |-> NewError(NoError, 0), calls |-> <<>>]

Start ==
    /\ config \in Configs
    /\ now = 1
    /\ cache = [u \in Usernames |-> NoEntry]
    /\ connections = {}
    /\ nextLock = 1
    /\ pc = [r \in Workers |-> "idle"]
    /\ remoteAddr = [r \in Workers |-> <<>>]
    /\ cred = [r \in Workers |-> NoCred]
    /\ cachedUser = [r \in Workers |-> NoEntry]
    /\ user = [r \in Workers |-> ZeroUser]
    /\ lockSystem = [r \in Workers |-> 0]
    /\ resp = [r \in Workers |-> NoResponse]
    /\ reports = [r \in Workers |-> <<>>]
    /\ calls = [r \in Workers |-> <<>>]
    /\ exit = [r \in Workers |-> ""]
    /\ authLog = <<>>
    /\ request = [r \in Workers |-> NoRequest]

Init == Start /\ sequential = FALSE /\ probe = NoProbe

\* The states of ServeHTTP from its first line to the registration.
Admission ==
    {"auth", "lookup", "isexpired", "expired", "verify", "cache", "validate", "getfs"}

\* The request of worker r ends: its locals are gone, its answer stays.
Return(r, how, w, rep, c) ==
    /\ pc' = [pc EXCEPT ![r] = "done"]
    /\ exit' = [exit EXCEPT ![r] = how]
    /\ resp' = [resp EXCEPT ![r] = w]
    /\ reports' = [reports EXCEPT ![r] = rep]
    /\ calls' = [calls EXCEPT ![r] = c]
    /\ user' = [user EXCEPT ![r] = ZeroUser]
    /\ remoteAddr' = [remoteAddr EXCEPT ![r] = <<>>]
    /\ cred' = [cred EXCEPT ![r] = NoCred]
    /\ cachedUser' = [cachedUser EXCEPT ![r] = NoEntry]
    /\ lockSystem' = [lockSystem EXCEPT ![r] = 0]

\* authenticate returns. The log keeps a successful call, and before it the
\* call it follows when that one succeeded with the same username and the same
\* non-empty password; a failed call is kept only after such a call.
Logged(username, password, ok, ls) ==
    LET new == [username |-> username, password |-> password, ok |-> ok,
                lockSystem |-> ls]
        n == Len(authLog)
    IN  IF ~sequential THEN authLog
        ELSE IF /\ n > 0
                /\ authLog[n].ok
                /\ authLog[n].username = username
                /\ authLog[n].password = password
                /\ password # ""
        THEN <<authLog[n], new>>
        ELSE IF ok THEN <<new>>
        ELSE <<>>

----------------------------------------------------------------------------
\* Actions.

\* ServeHTTP, lines 136-150: a new request, its address and the
\* connection-level checks.
ServeHTTPConnect(r) ==
    /\ pc[r] \in {"idle", "done"}
    /\ sequential => \A q \in Workers : pc[q] \notin Admission
    /\ \E a \in Arrivals, hookErr \in BOOLEAN :
        LET res == checkConnection(
                      IsNewConnectionAllowed(connections, config.MaxTotalConnections),
                      config.ProxyProtocol, a.RemoteAddr, a.XRealIP, a.XForwardedFor,
                      hookErr)
        IN  IF res.exit # ""
            THEN Return(r, res.exit, res.resp, <<>>, res.calls)
            ELSE /\ pc' = [pc EXCEPT ![r] = "auth"]
                 /\ remoteAddr' = [remoteAddr EXCEPT ![r] = res.RemoteAddr]
                 /\ resp' = [resp EXCEPT ![r] = res.resp]
                 /\ reports' = [reports EXCEPT ![r] = <<>>]
                 /\ calls' = [calls EXCEPT ![r] = res.calls]
                 /\ exit' = [exit EXCEPT ![r] = ""]
                 /\ user' = [user EXCEPT ![r] = ZeroUser]
                 /\ cred' = [cred EXCEPT ![r] = NoCred]
                 /\ cachedUser' = [cachedUser EXCEPT ![r] = NoEntry]
                 /\ lockSystem' = [lockSystem EXCEPT ![r] = 0]
    /\ request' = [request EXCEPT ![r] = NoRequest]
    /\ UNCHANGED <<shared, authLog, probe>>

\* authenticate, lines 202-207: the Basic credentials of the request, with
\* ServeHTTP's answer (lines 152-156) when there are none.
authenticateBasicAuth(r) ==
    /\ pc[r] = "auth"
    /\ \E ok \in BOOLEAN :
        IF ~ok
        THEN LET a == onAuthenticateError(resp[r], reports[r])
             IN  /\ Return(r, "nobasic", a.resp, a.reports, <<"BasicAuth">>)
                 /\ authLog' = Logged("", "", FALSE, 0)
        ELSE \E c \in Credentials :
             /\ pc' = [pc EXCEPT ![r] = "lookup"]
             /\ cred' = [cred EXCEPT ![r] = c]
             /\ calls' = [calls EXCEPT ![r] = <<"BasicAuth">>]
             /\ UNCHANGED <<remoteAddr, cachedUser, user, lockSystem, resp, reports, exit,
                            authLog>>
    /\ UNCHANGED <<shared, request, probe>>

\* authenticate, lines 208-210: the entry of the username is got from the
\* cache; the call keeps what it got, whatever becomes of the cache.
authenticateLookup(r) ==
    /\ pc[r] = "lookup"
    /\ LET found == cache[cred[r].username].present
       IN  /\ pc' = [pc EXCEPT ![r] = IF found THEN "isexpired" ELSE "verify"]
           /\ cachedUser' = [cachedUser EXCEPT ![r] = cache[cred[r].username]]
    /\ calls' = [calls EXCEPT ![r] = Append(@, "GetCachedWebDAVUser")]
    /\ UNCHANGED <<shared, remoteAddr, cred, user, lockSystem, resp, reports, exit,
                   authLog, request, probe>>

\* authenticate, lines 211-219: the entry got is tested against the time as
\* it is now and against the password, with ServeHTTP's answer (lines
\* 152-156) when the cached password differs.
authenticateIsExpired(r) ==
    /\ pc[r] = "isexpired"
    /\ LET username == cred[r].username
           password == cred[r].password
           kind == cacheLookup(TRUE, cachedUser[r], password, now)
       IN  IF kind = "hit"
           THEN /\ pc' = [pc EXCEPT ![r] = "validate"]
                /\ user' = [user EXCEPT ![r] = cachedUser[r].User]
                /\ lockSystem' = [lockSystem EXCEPT ![r] = cachedUser[r].LockSystem]
                /\ cred' = [cred EXCEPT ![r] = NoCred]
                /\ cachedUser' = [cachedUser EXCEPT ![r] = NoEntry]
                /\ authLog' = Logged(username, password, TRUE, cachedUser[r].LockSystem)
                /\ UNCHANGED <<remoteAddr, resp, reports, calls, exit>>
           ELSE IF kind = "mismatch"
           THEN LET a == onAuthenticateError(resp[r],
                             updateLoginMetrics(reports[r], remoteAddr[r],
                                                ErrInvalidCredentials))
                IN  /\ Return(r, "mismatch", a.resp, a.reports, calls[r])
                    /\ authLog' = Logged(username, password, FALSE, 0)
           ELSE /\ pc' = [pc EXCEPT ![r] = "expired"]
                /\ cachedUser' = [cachedUser EXCEPT ![r] = NoEntry]
                /\ UNCHANGED <<remoteAddr, cred, user, lockSystem, resp, reports, calls,
                               exit, authLog>>
    /\ UNCHANGED <<shared, request, probe>>

\* authenticate, line 212: the entry of the username is removed from the cache.
authenticateRemoveExpired(r) ==
    /\ pc[r] = "expired"
    /\ cache' = RemoveCachedWebDAVUser(cache, cred[r].username)
    /\ pc' = [pc EXCEPT ![r] = "verify"]
    /\ calls' = [calls EXCEPT ![r] = Append(@, "RemoveCachedWebDAVUser")]
    /\ UNCHANGED <<config, sequential, now, connections, nextLock, remoteAddr, cred,
                   cachedUser, user, lockSystem, resp, reports, exit, authLog, request,
                   probe>>

\* authenticate, lines 221-236: the full verification, with ServeHTTP's answer
\* when the provider refuses, the new lock system and, for a non-empty
\* password, the cache entry built with the time as it is now; with an empty
\* password authenticate returns (line 247).
authenticateVerify(r) ==
    /\ pc[r] = "verify"
    /\ LET username == cred[r].username
           password == cred[r].password
           res == CheckUserAndPass(username, password)
           c1 == Append(calls[r], "CheckUserAndPass")
           c2 == Append(c1, "NewMemLS")
       IN  IF res.err # NoError
           THEN LET a == onAuthenticateError(resp[r],
                             updateLoginMetrics(reports[r], remoteAddr[r], res.err))
                IN  /\ Return(r, "provider", a.resp, a.reports, c1)
                    /\ authLog' = Logged(username, password, FALSE, 0)
                    /\ UNCHANGED nextLock
           ELSE /\ nextLock <= MaxLocks
                /\ nextLock' = nextLock + 1
                /\ user' = [user EXCEPT ![r] = res.user]
                /\ lockSystem' = [lockSystem EXCEPT ![r] = nextLock]
                /\ calls' = [calls EXCEPT ![r] = c2]
                /\ IF cachesUser(password)
                   THEN /\ pc' = [pc EXCEPT ![r] = "cache"]
                        /\ cachedUser' = [cachedUser EXCEPT ![r] =
                               newCachedUser(res.user, password, nextLock, now,
                                             config.ExpirationTime)]
                        /\ UNCHANGED <<cred, authLog>>
                   ELSE /\ pc' = [pc EXCEPT ![r] = "validate"]
                        /\ cachedUser' = [cachedUser EXCEPT ![r] = NoEntry]
                        /\ cred' = [cred EXCEPT ![r] = NoCred]
                        /\ authLog' = Logged(username, password, TRUE, nextLock)
                /\ UNCHANGED <<remoteAddr, resp, reports, exit>>
    /\ UNCHANGED <<config, sequential, now, cache, connections, request, probe>>

\* authenticate, lines 237-247: the entry built is put into the cache, the
\* root path is checked on a throwaway filesystem unless the user's is the
\* SFTP one, and authenticate returns.
authenticateCache(r) ==
    /\ pc[r] = "cache"
    /\ cache' \in CacheWebDAVUser(cache, cachedUser[r], config.MaxSize)
    /\ LET c3 == Append(calls[r], "CacheWebDAVUser")
       IN  IF user[r].FsProvider = SFTPFilesystemProvider
           THEN calls' = [calls EXCEPT ![r] = c3]
           ELSE \E tempFsErr \in BOOLEAN :
                calls' = [calls EXCEPT ![r] =
                    IF tempFsErr THEN Append(c3, "GetFilesystem(temp)")
                    ELSE c3 \o <<"GetFilesystem(temp)", "CheckRootPath", "Close">>]
    /\ pc' = [pc EXCEPT ![r] = "validate"]
    /\ cred' = [cred EXCEPT ![r] = NoCred]
    /\ cachedUser' = [cachedUser EXCEPT ![r] = NoEntry]
    /\ authLog' = Logged(cred[r].username, cred[r].password, TRUE, lockSystem[r])
    /\ UNCHANGED <<config, sequential, now, connections, nextLock, remoteAddr, user,
                   lockSystem, resp, reports, exit, request, probe>>

\* ServeHTTP, lines 158-163: validateUser against the registry as it is now.
ServeHTTPValidate(r) ==
    /\ pc[r] = "validate"
    /\ LET res == validateUser(user[r], remoteAddr[r], connections, config.QuotaTracking)
       IN  IF res.err.msg # NoError
           THEN LET a == onValidateError(resp[r], reports[r], remoteAddr[r], res.err)
                IN  Return(r, "validate", a.resp, a.reports, res.calls)
           ELSE /\ pc' = [pc EXCEPT ![r] = "getfs"]
                /\ calls' = [calls EXCEPT ![r] = res.calls]
                /\ UNCHANGED <<remoteAddr, cred, cachedUser, user, lockSystem, resp, reports,
                               exit>>
    /\ UNCHANGED <<shared, authLog, request, probe>>

\* ServeHTTP, lines 165-182: the filesystem, the report of the login, and the
\* connection added to the registry.
ServeHTTPRegister(r) ==
    /\ pc[r] = "getfs"
    /\ \E fsErr \in BOOLEAN :
        IF fsErr
        THEN LET a == onFilesystemError(resp[r], reports[r], remoteAddr[r])
             IN  /\ Return(r, "fs", a.resp, a.reports, <<"GetFilesystem">>)
                 /\ UNCHANGED connections
        ELSE /\ connections' = addConnection(connections, r, user[r])
             /\ pc' = [pc EXCEPT ![r] = "serving"]
             /\ reports' = [reports EXCEPT ![r] = updateLoginMetrics(@, remoteAddr[r], NoError)]
             /\ calls' = [calls EXCEPT ![r] = <<"GetFilesystem", "Connections.Add">>]
             /\ UNCHANGED <<remoteAddr, cred, cachedUser, user, lockSystem, resp, exit>>
    /\ UNCHANGED <<config, sequential, now, cache, nextLock, authLog, request, probe>>

\* ServeHTTP, lines 184-199 and the deferred calls of lines 182 and 130-135:
\* the last-login update, checkRequestMethod, the downstream handler; any of
\* the three may panic. request keeps what ServeHTTP got to read of the
\* request (nothing before checkRequestMethod, no target before Stat returns)
\* and the method and Depth header the request is left with.
ServeHTTPServe(r) ==
    /\ pc[r] = "serving"
    /\ \E req \in Requests,
          panicAt \in {"", "UpdateLastLogin", "Stat", "handler.ServeHTTP"} :
        LET m == checkRequestMethod(req.Method, req.Depth, req.target = "error",
                                    req.target = "dir")
            c1 == <<"UpdateLastLogin">>
            c2 == c1 \o m.calls
            c3 == Append(c2, "handler.ServeHTTP")
            head == [resp[r] EXCEPT !.contentType = "text/xml; charset=utf-8",
                                    !.status = StatusMultiStatus, !.body = ""]
            unstatted == [req EXCEPT !.target = ""]
            seen == IF m.calls = <<>> THEN unstatted ELSE req
            asLeft == [arrived |-> seen, Method |-> m.Method, Depth |-> m.Depth]
            run == IF panicAt = "UpdateLastLogin"
                   THEN [how |-> "panic", c |-> c1, w |-> resp[r], req |-> NoRequest]
                   ELSE IF panicAt = "Stat" /\ m.calls # <<>>
                   THEN [how |-> "panic", c |-> c2, w |-> resp[r],
                         req |-> [arrived |-> unstatted, Method |-> req.Method,
                                  Depth |-> req.Depth]]
                   ELSE IF m.handled
                   THEN [how |-> "head", c |-> c2, w |-> head, req |-> asLeft]
                   ELSE IF panicAt = "handler.ServeHTTP"
                   THEN [how |-> "panic", c |-> c3, w |-> resp[r], req |-> asLeft]
                   ELSE [how |-> "handler", c |-> c3, w |-> resp[r], req |-> asLeft]
            panicked == run.how = "panic"
        IN  /\ connections' = deferredRemove(connections, r, panicked)
            /\ request' = [request EXCEPT ![r] = run.req]
            /\ Return(r, run.how, deferredRecover(run.w, panicked), reports[r],
                      Append(run.c, "Connections.Remove"))
    /\ UNCHANGED <<config, sequential, now, cache, nextLock, authLog, probe>>

\* Time passes.
Tick ==
    /\ now < MaxTime
    /\ now' = now + 1
    /\ UNCHANGED <<config, sequential, cache, connections, nextLock, pc, remoteAddr,
                   cred, cachedUser, user, lockSystem, resp, reports, calls, exit, authLog, request,
                   probe>>

Next ==
    \/ \E r \in Workers : ServeHTTPConnect(r)
    \/ \E r \in Workers : authenticateBasicAuth(r)
    \/ \E r \in Workers : authenticateLookup(r)
    \/ \E r \in Workers : authenticateIsExpired(r)
    \/ \E r \in Workers : authenticateRemoveExpired(r)
    \/ \E r \in Workers : authenticateVerify(r)
    \/ \E r \in Workers : authenticateCache(r)
    \/ \E r \in Workers : ServeHTTPValidate(r)
    \/ \E r \in Workers : ServeHTTPRegister(r)
    \/ \E r \in Workers : ServeHTTPServe(r)
    \/ Tick

\* Requests run concurrently.
Spec == Init /\ [][Next]_vars

\* Requests are admitted one at a time: a request starts only when no other
\* stands between its first line and its registration.
InitSeq == Start /\ sequential = TRUE /\ probe = NoProbe
SpecSeq == InitSeq /\ [][Next]_vars

----------------------------------------------------------------------------
\* validateUser alone, on every identity and registry of the bounds.

MaxProbeSessions == 2

ProbeUsers ==
    { NewUser("carol", home, deniedProto, deniedLogin, maxSessions, overlapped, allowedIP,
              "osfs") :
        home \in {AbsHome, RelHome}, deniedProto \in {{}, {ProtocolWebDAV}},
        deniedLogin \in {{}, {LoginMethodPassword}},
        maxSessions \in 0..MaxProbeSessions, overlapped \in BOOLEAN,
        allowedIP \in {{}, {<<"10.0.0.1">>}} }

ProbeConns ==
    { {[id |-> i, username |-> "carol"] : i \in 1..k} \cup {[id |-> 0, username |-> "dave"]} :
        k \in 0..MaxProbeSessions }

InitProbe ==
    /\ Start
    /\ sequential = FALSE
    /\ probe \in { [NoProbe EXCEPT !.user = u, !.remoteAddr = a, !.conns = c,
                                    !.quotaTracking = config.QuotaTracking] :
                    u \in ProbeUsers, a \in {<<"10.0.0.1">>, <<"10.0.0.2">>},
                    c \in ProbeConns }

validateUserProbe ==
    /\ ~probe.done
    /\ LET res == validateUser(probe.user, probe.remoteAddr, probe.conns,
                               probe.quotaTracking)
       IN  probe' = [probe EXCEPT !.done = TRUE, !.err = res.err, !.calls = res.calls]
    /\ UNCHANGED <<config, sequential, now, cache, connections, nextLock, pc, remoteAddr,
                   cred, cachedUser, user, lockSystem, resp, reports, calls, exit, authLog,
                   request>>

SpecProbe == InitProbe /\ [][validateUserProbe]_vars

----------------------------------------------------------------------------
\* checkRequestMethod alone, on every method, Depth header and stat result.

ProbeRequests ==
    { NewRequest(method, depth, target) :
        method \in {"GET", "HEAD", "PUT", "PROPFIND"},
        depth \in {<<>>, <<"">>, <<"0">>, <<"1">>, <<"infinity">>},
        target \in {"dir", "file", "error"} }

InitMethod ==
    /\ Start
    /\ sequential = FALSE
    /\ probe \in { [req |-> req, done |-> FALSE, handled |-> FALSE, Method |-> req.Method,
                     Depth |-> req.Depth, calls |-> <<>>] : req \in ProbeRequests }

checkRequestMethodProbe ==
    /\ ~probe.done
    /\ LET m == checkRequestMethod(probe.req.Method, probe.req.Depth,
                                    probe.req.target = "error", probe.req.target = "dir")
       IN  probe' = [probe EXCEPT !.done = TRUE, !.handled = m.handled, !.Method = m.Method,
                                  !.Depth = m.Depth, !.calls = m.calls]
    /\ UNCHANGED <<config, sequential, now, cache, connections, nextLock, pc, remoteAddr,
                   cred, cachedUser, user, lockSystem, resp, reports, calls, exit, authLog,
                   request>>

SpecMethod == InitMethod /\ [][checkRequestMethodProbe]_vars

----------------------------------------------------------------------------
\* verifyTLSConnection alone, on handshake states and revocation lists.

MaxChains == 2

\* Chains as crypto/tls verifies them: the client certificate first, the
\* trust anchor last.
ProbeChains == { <<"client", "ca1">>, <<"client", "inter", "ca2">> }

ProbeChainLists ==
    UNION { [1..n -> ProbeChains] : n \in 0..MaxChains }

\* tls.ConnectionState: no certificate at all, or a certificate with the
\* chains verified for it.
ProbeTLSStates ==
    { [PeerCertificates |-> <<>>, VerifiedChains |-> <<>>] }
    \cup { [PeerCertificates |-> <<"client">>, VerifiedChains |-> chains] :
              chains \in ProbeChainLists }

ProbeRevocations == SUBSET ({"client"} \X {"ca1", "ca2", "inter"})

InitTLS ==
    /\ Start
    /\ sequential = FALSE
    /\ probe \in { [hasCertMgr |-> m, state |-> st, revoked |-> rv, done |-> FALSE,
                     err |-> NoError] :
                    m \in BOOLEAN, st \in ProbeTLSStates, rv \in ProbeRevocations }

verifyTLSConnectionProbe ==
    /\ ~probe.done
    /\ probe' = [probe EXCEPT !.done = TRUE,
                              !.err = verifyTLSConnection(probe.hasCertMgr,
                                          probe.state.PeerCertificates,
                                          probe.state.VerifiedChains, probe.revoked)]
    /\ UNCHANGED <<config, sequential, now, cache, connections, nextLock, pc, remoteAddr,
                   cred, cachedUser, user, lockSystem, resp, reports, calls, exit, authLog,
                   request>>

SpecTLS == InitTLS /\ [][verifyTLSConnectionProbe]_vars

----------------------------------------------------------------------------
\* ServeHTTP up to the call of authenticate alone, on every X-Forwarded-For
\* value of the bound.

MaxHeaderLen == 3

HeaderTokens == {"10.0.0.1", "10.0.0.66", ",", " "}

ProbeTexts == UNION { [1..n -> HeaderTokens] : n \in 0..MaxHeaderLen }

InitAddr ==
    /\ Start
    /\ sequential = FALSE
    /\ probe \in { [allowed |-> al, arrival |-> NewArrival(a, x, f), hookErr |-> h,
                     proxyProtocol |-> config.ProxyProtocol, done |-> FALSE,
                     exit |-> "", calls |-> <<>>, RemoteAddr |-> a] :
                    al \in BOOLEAN, a \in IPs, x \in {<<>>, <<"10.0.0.1">>},
                    f \in ProbeTexts, h \in BOOLEAN }

checkConnectionProbe ==
    /\ ~probe.done
    /\ LET res == checkConnection(probe.allowed, probe.proxyProtocol,
                                  probe.arrival.RemoteAddr, probe.arrival.XRealIP,
                                  probe.arrival.XForwardedFor, probe.hookErr)
       IN  probe' = [probe EXCEPT !.done = TRUE, !.exit = res.exit, !.calls = res.calls,
                                  !.RemoteAddr = res.RemoteAddr]
    /\ UNCHANGED <<config, sequential, now, cache, connections, nextLock, pc, remoteAddr,
                   cred, cachedUser, user, lockSystem, resp, reports, calls, exit, authLog,
                   request>>

SpecAddr == InitAddr /\ [][checkConnectionProbe]_vars

----------------------------------------------------------------------------
\* Properties.

InSeq(x, q) == \E i \in 1..Len(q) : q[i] = x

Registered(r) == \E c \in connections : c.id = r

\* The cache entry of username u is present and its expiration has passed.
Stale(u) == cache[u].present /\ cache[u].Expiration # 0 /\ cache[u].Expiration <= now

\* C1: a connection is in the registry exactly while its request is between
\* its registration and its return, so a finished request, however it ended
\* (directory HEAD, handler return, panic), has left the registry; and a
\* panic is answered 500 with the generic failure message.
C1_RegistryBracketsRequest ==
    \A r \in Workers :
        /\ Registered(r) <=> pc[r] = "serving"
        /\ pc[r] = "done" /\ exit[r] = "panic" =>
              /\ resp[r].status = StatusInternalServerError
              /\ resp[r].body = ErrGenericFailure

C1_Witness ==
    \E r \in Workers :
        /\ pc[r] = "done" /\ exit[r] = "panic"
        /\ InSeq("Connections.Add", calls[r]) \/ InSeq("handler.ServeHTTP", calls[r])
        /\ ~Registered(r)

\* The entry worker r got from the cache has not expired as time is now.
GotFresh(r) ==
    /\ cachedUser[r].present
    /\ cachedUser[r].Expiration = 0 \/ cachedUser[r].Expiration > now

\* C2: a call of authenticate that got an entry from the cache and finds it
\* not expired, while its password differs from the supplied one, ends the
\* request: invalid credentials are reported, the answer is 401,
\* CheckUserAndPass is not called and the cache is untouched, also when the
\* provider would accept the supplied password.
C2_CacheMismatchFails ==
    [][\A r \in Workers :
        LET u == cred[r].username
        IN  (/\ pc[r] = "isexpired" /\ pc'[r] # "isexpired"
             /\ GotFresh(r)
             /\ cachedUser[r].Password # cred[r].password)
            => /\ cachedUser[r].User.Username = u
               /\ pc'[r] = "done" /\ exit'[r] = "mismatch"
               /\ resp'[r].status = StatusUnauthorized
               /\ Len(reports'[r]) = 1
               /\ reports'[r][1].err = ErrInvalidCredentials
               /\ ~InSeq("CheckUserAndPass", calls'[r])
               /\ cache' = cache /\ nextLock' = nextLock]_vars

C2_Witness ==
    \E r \in Workers :
        /\ pc[r] = "done" /\ exit[r] = "mismatch"
        /\ calls[r] = <<"BasicAuth", "GetCachedWebDAVUser">>
        /\ \E u \in DOMAIN Users :
              cache[u].present /\ ~Stale(u) /\ AcceptedPasswords[u] \ {cache[u].Password} # {}

\* C3: a call of authenticate that finds the entry it got expired never
\* returns it: the entry of the username is removed from the cache and
\* CheckUserAndPass decides, so the call succeeds exactly when the provider
\* accepts the supplied password, with a lock system of its own.
C3_ExpiredEntryIsVerifiedAfresh ==
    [][\A r \in Workers :
        LET u == cred[r].username
        IN  /\ pc[r] = "isexpired" /\ pc'[r] # "isexpired" /\ ~GotFresh(r) =>
                  pc'[r] = "expired"
            /\ pc[r] = "expired" /\ pc'[r] # "expired" =>
                  pc'[r] = "verify" /\ ~cache'[u].present
            /\ pc[r] = "verify" /\ pc'[r] # "verify" =>
                  /\ InSeq("CheckUserAndPass", calls'[r])
                  /\ pc'[r] \in {"cache", "validate"} <=>
                        u \in DOMAIN Users /\ cred[r].password \in AcceptedPasswords[u]
                  /\ pc'[r] \in {"cache", "validate"} => lockSystem'[r] = nextLock
                  /\ pc'[r] \notin {"cache", "validate"} =>
                        pc'[r] = "done" /\ exit'[r] = "provider"
            /\ pc[r] = "cache" /\ pc'[r] # "cache" =>
                  pc'[r] = "validate" /\ lockSystem'[r] = lockSystem[r]]_vars

C3_Witness ==
    \E r \in Workers :
        /\ pc[r] = "validate"
        /\ InSeq("RemoveCachedWebDAVUser", calls[r])
        /\ InSeq("CheckUserAndPass", calls[r])
        /\ InSeq("CacheWebDAVUser", calls[r])

\* C4: with no expiration time configured, a call of authenticate that follows
\* a successful call with the same username and the same non-empty password
\* succeeds and returns the lock system of that call.
C4_SameLockSystemOnRepeat ==
    config.ExpirationTime = 0 /\ Len(authLog) = 2 =>
        /\ authLog[2].ok
        /\ authLog[2].lockSystem = authLog[1].lockSystem

C4_Witness ==
    /\ config.ExpirationTime = 0
    /\ Len(authLog) = 2
    /\ authLog[2].ok
    /\ \E r \in Workers :
          /\ pc[r] = "validate"
          /\ calls[r] = <<"BasicAuth", "GetCachedWebDAVUser">>
          /\ lockSystem[r] = authLog[1].lockSystem
          /\ cache[user[r].Username].LockSystem = lockSystem[r]

\* C5: with requests admitted one at a time, validateUser never finds more
\* than MaxSessions sessions of an identity with MaxSessions = N > 0; when it
\* finds N the request is refused and the error prints N; when it finds fewer
\* the session quota refuses nothing.
C5_QuotaRejectsAtN ==
    [][\A r \in Workers :
        LET n == GetActiveSessions(connections, user[r].Username)
            N == user[r].MaxSessions
        IN  pc[r] = "validate" /\ pc'[r] # "validate" /\ N > 0 =>
              /\ n <= N
              /\ n = N => /\ pc'[r] = "done" /\ exit'[r] = "validate"
                          /\ resp'[r].status = StatusForbidden
                          /\ resp'[r].body = ErrSessions
                          /\ resp'[r].sessions = N
              /\ n < N => resp'[r].body # ErrSessions]_vars

C5_Witness ==
    \E r \in Workers :
        /\ pc[r] = "done" /\ exit[r] = "validate"
        /\ resp[r].body = ErrSessions
        /\ resp[r].sessions = Users["alice"].MaxSessions
        /\ GetActiveSessions(connections, "alice") = Users["alice"].MaxSessions

\* C6: the session quota is read and nothing is reserved: validateUser admits
\* on the count it reads and leaves the registry as it is, and the later
\* registration adds the connection whatever the registry holds by then. The
\* witness is a registry holding more sessions of an identity than its quota.
C6_QuotaIsAdvisory ==
    [][\A r \in Workers :
        LET n == GetActiveSessions(connections, user[r].Username)
            N == user[r].MaxSessions
        IN  /\ pc[r] = "validate" /\ pc'[r] # "validate" =>
                  /\ connections' = connections
                  /\ pc'[r] = "getfs" => N = 0 \/ n < N
            /\ pc[r] = "getfs" /\ pc'[r] = "serving" =>
                  connections' = connections \cup {[id |-> r, username |-> user[r].Username]}]_vars

C6_Witness ==
    \E u \in DOMAIN Users :
        /\ Users[u].MaxSessions > 0
        /\ GetActiveSessions(connections, u) > Users[u].MaxSessions

\* The requests that reached authenticate, by the return they took.
AuthFailed == {"nobasic", "mismatch", "provider"}
AuthPassed == {"validate", "fs", "head", "handler", "panic"}

\* C7: every finished request that reached authenticate has called
\* updateLoginMetrics exactly once, whichever way it ended.  A request without
\* Basic credentials returns from authenticate at its first test and is
\* answered 401 with no report made.
C7_ReportedOnceAlways ==
    \A r \in Workers :
        pc[r] = "done" /\ exit[r] \in AuthFailed \cup AuthPassed => Len(reports[r]) = 1

\* C8: the connection-level checks run in the order ceiling, ban list, hook,
\* and the first that fails answers: 503 after the ceiling alone, 403 after
\* the ban list or the hook, with nothing of authenticate called and nothing
\* reported; a request that goes on to authenticate has passed all three.
C8_ConnectionChecksInOrder ==
    \A r \in Workers :
        /\ pc[r] = "done" /\ exit[r] = "limit" =>
              /\ resp[r].status = StatusServiceUnavailable
              /\ calls[r] = <<"IsNewConnectionAllowed">>
              /\ reports[r] = <<>>
        /\ pc[r] = "done" /\ exit[r] = "banned" =>
              /\ resp[r].status = StatusForbidden
              /\ calls[r] = <<"IsNewConnectionAllowed", "checkRemoteAddress", "IsBanned">>
              /\ reports[r] = <<>>
        /\ pc[r] = "done" /\ exit[r] = "hook" =>
              /\ resp[r].status = StatusForbidden
              /\ calls[r] = <<"IsNewConnectionAllowed", "checkRemoteAddress", "IsBanned",
                              "ExecutePostConnectHook">>
              /\ reports[r] = <<>>
        /\ pc[r] = "done" /\ resp[r].status = StatusServiceUnavailable => exit[r] = "limit"
        /\ pc[r] = "auth" =>
              /\ calls[r] = <<"IsNewConnectionAllowed", "checkRemoteAddress", "IsBanned",
                              "ExecutePostConnectHook">>
              /\ ~IsBanned(remoteAddr[r])

C8_Witness ==
    \E r \in Workers :
        /\ pc[r] = "done" /\ exit[r] = "limit"
        /\ resp[r].status = StatusServiceUnavailable
        /\ connections # {}

\* The checks of validateUser that fail on the probe's arguments, in the
\* order of the claim, and what each returns.
ProbeFails ==
    LET u == probe.user
    IN  << ~IsAbs(u.HomeDir),
           ProtocolWebDAV \in u.DeniedProtocols,
           LoginMethodPassword \in u.DeniedLoginMethods,
           u.MaxSessions > 0
              /\ GetActiveSessions(probe.conns, u.Username) >= u.MaxSessions,
           probe.quotaTracking > 0 /\ u.OverlappedMappedPaths,
           u.AllowedIP # {} /\ probe.remoteAddr \notin u.AllowedIP >>

ProbeErrors == <<ErrHomeDir, ErrProtocol, ErrLoginMethod, ErrSessions, ErrOverlap, ErrAddress>>

\* C9: validateUser returns the error of the first failing check in the order
\* home directory, denied protocol, login method, session quota, overlapping
\* paths, source address, and evaluates no later check: the registry is
\* queried only when the first three pass and MaxSessions > 0.
C9_ValidateUserOrder ==
    probe.done =>
        LET failing == {i \in 1..6 : ProbeFails[i]}
            first == CHOOSE i \in failing : \A j \in failing : i <= j
        IN  /\ failing = {} => probe.err.msg = NoError
            /\ failing # {} => probe.err.msg = ProbeErrors[first]
            /\ InSeq("GetActiveSessions", probe.calls) <=>
                  /\ probe.user.MaxSessions > 0
                  /\ failing \cap {1, 2, 3} = {}
            /\ InSeq("IsLoginFromAddrAllowed", probe.calls) <=> failing \cap {1, 2, 3, 4, 5} = {}
            /\ InSeq("DeniedProtocols", probe.calls) <=> 1 \notin failing

C9_Witness ==
    /\ probe.done
    /\ ~IsAbs(probe.user.HomeDir)
    /\ probe.user.MaxSessions > 0
    /\ GetActiveSessions(probe.conns, probe.user.Username) >= probe.user.MaxSessions
    /\ probe.err.msg = ErrHomeDir
    /\ ~InSeq("GetActiveSessions", probe.calls)

\* C10: the stage that fails decides the status: 401 with the Basic challenge
\* for every failure of authenticate, 403 for a refusal of validateUser, 500
\* for a failure of GetFilesystem; ServeHTTP writes 401 for nothing else.
C10_StatusByStage ==
    \A r \in Workers :
        /\ pc[r] = "done" /\ exit[r] \in AuthFailed =>
              /\ resp[r].status = StatusUnauthorized
              /\ resp[r].wwwAuthenticate = "Basic realm=\"SFTPGo WebDAV\""
        /\ pc[r] = "done" /\ exit[r] = "validate" => resp[r].status = StatusForbidden
        /\ pc[r] = "done" /\ exit[r] = "fs" => resp[r].status = StatusInternalServerError
        /\ resp[r].status = StatusUnauthorized => pc[r] = "done" /\ exit[r] \in AuthFailed
        /\ resp[r].wwwAuthenticate # "" => resp[r].status = StatusUnauthorized

C10_Witness ==
    \E r, q \in Workers :
        /\ pc[r] = "done" /\ exit[r] = "validate" /\ resp[r].status = StatusForbidden
        /\ pc[q] = "done" /\ exit[q] = "mismatch" /\ resp[q].status = StatusUnauthorized
        /\ resp[q].wwwAuthenticate # ""

\* C11: a HEAD request whose path stats as a directory is answered by ServeHTTP
\* itself: 207, an empty body, content type text/xml; the downstream handler
\* is not called, the connection has left the registry, and the request's
\* method is still HEAD. Only a HEAD of a directory is answered this way.
C11_HeadOfDirectoryAnsweredHere ==
    \A r \in Workers :
        /\ ( /\ pc[r] = "done"
             /\ request[r].arrived.Method = "HEAD"
             /\ request[r].arrived.target = "dir"
             /\ exit[r] # "panic" )
           => /\ exit[r] = "head"
              /\ resp[r].status = StatusMultiStatus
              /\ resp[r].body = ""
              /\ resp[r].contentType = "text/xml; charset=utf-8"
              /\ ~InSeq("handler.ServeHTTP", calls[r])
              /\ InSeq("Connections.Remove", calls[r])
              /\ ~Registered(r)
              /\ request[r].Method = "HEAD"
        /\ ( /\ pc[r] = "done"
             /\ request[r].arrived.Method = "HEAD"
             /\ request[r].arrived.target = "dir" )
           => ~InSeq("handler.ServeHTTP", calls[r]) /\ ~Registered(r)
        /\ pc[r] = "done" /\ exit[r] = "head" =>
              request[r].arrived.Method = "HEAD" /\ request[r].arrived.target = "dir"

C11_Witness ==
    \E r \in Workers :
        /\ pc[r] = "done" /\ exit[r] = "head"
        /\ request[r].arrived = NewRequest("HEAD", <<>>, "dir")
        /\ request[r].Method = "HEAD"
        /\ resp[r].status = StatusMultiStatus
        /\ calls[r] = <<"UpdateLastLogin", "Stat", "Connections.Remove">>

\* C12: checkRequestMethod turns a GET whose path stats as a directory into a
\* PROPFIND and reports false; it sets the Depth header to "1" exactly when
\* the request had no Depth header, and leaves a Depth header the request had
\* as it was. For a target that is no directory, a failing Stat, or a method
\* other than GET and HEAD, it reports false and leaves method and headers.
C12_GetOfDirectoryBecomesPropfind ==
    probe.done =>
        LET req == probe.req
        IN  /\ req.Method = "GET" /\ req.target = "dir" =>
                  /\ probe.Method = "PROPFIND"
                  /\ ~probe.handled
                  /\ req.Depth = <<>> => probe.Depth = <<"1">>
                  /\ req.Depth # <<>> => probe.Depth = req.Depth
            /\ req.Method \notin {"GET", "HEAD"} \/ req.target # "dir" =>
                  /\ probe.Method = req.Method
                  /\ probe.Depth = req.Depth
                  /\ ~probe.handled

\* The client certificate is revoked under the trust anchor of chain i.
RevokedUnderChain(i) ==
    LET chain == probe.state.VerifiedChains[i]
    IN  <<"client", chain[Len(chain)]>> \in probe.revoked

\* C13: with a certificate manager, verifyTLSConnection fails with the
\* chain-unverifiable error when there is no verified chain, fails with the
\* revoked error when the client certificate is revoked under the trust anchor
\* of any one chain, whatever the other chains say, and passes only when there
\* is a chain and the certificate is revoked under none; without a certificate
\* manager it passes always.
C13_RevokedUnderAnyChainRejected ==
    probe.done =>
        LET chains == probe.state.VerifiedChains
            n == Len(chains)
        IN  /\ ~probe.hasCertMgr => probe.err = NoError
            /\ probe.hasCertMgr /\ n = 0 => probe.err = ErrChainUnverifiable
            /\ probe.hasCertMgr /\ (\E i \in 1..n : RevokedUnderChain(i)) =>
                  probe.err = ErrCrtRevoked
            /\ probe.hasCertMgr =>
                  (probe.err = NoError <=> n > 0 /\ \A i \in 1..n : ~RevokedUnderChain(i))

C13_Witness ==
    /\ probe.done
    /\ probe.hasCertMgr
    /\ Len(probe.state.VerifiedChains) = 2
    /\ ~RevokedUnderChain(1)
    /\ RevokedUnderChain(2)
    /\ probe.err = ErrCrtRevoked

\* C14: an empty supplied password is never accepted from the cache: a call
\* that finds the entry it got not expired while the supplied password is
\* empty ends the request with invalid credentials reported and 401, and the decision is
\* the same for an entry whose own password is empty; a full verification
\* that succeeds with an empty password leaves the cache as it is.
C14_EmptyPasswordNeverFromCache ==
    [][\A r \in Workers :
        LET u == cred[r].username
        IN  /\ ( /\ pc[r] = "isexpired" /\ pc'[r] # "isexpired"
                 /\ GotFresh(r)
                 /\ cred[r].password = "" )
               => /\ pc'[r] = "done" /\ exit'[r] = "mismatch"
                  /\ resp'[r].status = StatusUnauthorized
                  /\ reports'[r] = updateLoginMetrics(<<>>, remoteAddr[r], ErrInvalidCredentials)
                  /\ cache' = cache
            /\ ( /\ pc[r] = "isexpired"
                 /\ GotFresh(r) )
               => cacheLookup(TRUE, [cachedUser[r] EXCEPT !.Password = ""], "", now)
                     = "mismatch"
            /\ ( /\ pc[r] = "verify" /\ pc'[r] # "verify"
                 /\ cred[r].password = "" )
               => /\ pc'[r] # "cache"
                  /\ cache' = cache /\ ~InSeq("CacheWebDAVUser", calls'[r])
            /\ pc[r] = "cache" => cred[r].password # ""]_vars

C14_Witness ==
    \E r, q \in Workers :
        /\ pc[r] = "validate"
        /\ calls[r] = <<"BasicAuth", "GetCachedWebDAVUser", "CheckUserAndPass", "NewMemLS">>
        /\ "" \in AcceptedPasswords[user[r].Username]
        /\ cache[user[r].Username].present
        /\ cache[user[r].Username].LockSystem # lockSystem[r]
        /\ pc[q] = "done" /\ exit[q] = "mismatch"

\* C15: every full verification that succeeds for an identity whose
\* filesystem is not the SFTP one asks for a throwaway filesystem, and when it
\* gets one checks the root path on it and closes it, all before authenticate
\* returns; whether the filesystem is got or not, the login succeeds.
C15_RootPathCheckedOnVerification ==
    [][\A r \in Workers :
        LET u == cred[r].username
            c == calls'[r]
        IN  /\ ( /\ pc[r] = "verify" /\ pc'[r] # "verify"
                 /\ CheckUserAndPass(u, cred[r].password).err = NoError )
               => pc'[r] \in {"cache", "validate"}
            /\ pc[r] = "cache" /\ pc'[r] # "cache" => pc'[r] = "validate"
            /\ ( /\ pc[r] \in {"verify", "cache"} /\ pc'[r] = "validate"
                 /\ Users[u].FsProvider # SFTPFilesystemProvider )
               => /\ InSeq("GetFilesystem(temp)", c)
                  /\ InSeq("CheckRootPath", c) =>
                        c[Len(c)] = "Close" /\ c[Len(c) - 1] = "CheckRootPath"]_vars

\* C16: every report of a failure adds one defender event for the source
\* address, "user not found" for a record-not-found error and "login failed"
\* for any other error; a report of a success adds none; every report, of
\* either kind, counts the attempt and the result and runs the post-login hook.
C16_DefenderEventOnFailureOnly ==
    \A r \in Workers : \A i \in 1..Len(reports[r]) :
        LET rep == reports[r][i]
        IN  /\ rep.err # NoError =>
                  /\ InSeq("AddDefenderEvent", rep.calls)
                  /\ rep.event = IF rep.err = ErrRecordNotFound
                                 THEN "HostEventUserNotFound" ELSE "HostEventLoginFailed"
                  /\ rep.ip \in IPs
            /\ rep.err = NoError =>
                  ~InSeq("AddDefenderEvent", rep.calls) /\ rep.event = ""
            /\ InSeq("AddLoginAttempt", rep.calls)
            /\ InSeq("AddLoginResult", rep.calls)
            /\ InSeq("ExecutePostLoginHook", rep.calls)

C16_Witness ==
    \E r, q \in Workers :
        /\ pc[r] = "done" /\ exit[r] = "provider"
        /\ Len(reports[r]) = 1
        /\ reports[r][1].err = ErrRecordNotFound
        /\ reports[r][1].event = "HostEventUserNotFound"
        /\ pc[q] = "serving"
        /\ Len(reports[q]) = 1
        /\ reports[q][1].err = NoError
        /\ ~InSeq("AddDefenderEvent", reports[q][1].calls)

\* The first comma-separated value of a header value, without the spaces
\* around it.
FirstCommaSeparated(s) ==
    LET commas == {i \in 1..Len(s) : s[i] = ","}
        n == IF commas = {} THEN Len(s)
             ELSE (CHOOSE i \in commas : \A j \in commas : i <= j) - 1
    IN  TrimSpace(SubSeq(s, 1, n))

\* C17: without a proxy protocol the address of the request becomes the
\* X-Real-IP value when there is one, otherwise the first comma-separated
\* value of X-Forwarded-For when there is one, and this is done before any
\* policy check is made, the connection ceiling included; with a proxy
\* protocol, or with neither header, the address stays as observed.
C17_AddressOverriddenBeforeChecks ==
    probe.done =>
        LET a == probe.arrival
            first == FirstCommaSeparated(a.XForwardedFor)
            expected == IF probe.proxyProtocol # 0 THEN a.RemoteAddr
                        ELSE IF a.XRealIP # <<>> THEN a.XRealIP
                        ELSE IF first # <<>> THEN first
                        ELSE a.RemoteAddr
        IN  /\ probe.RemoteAddr = expected
            /\ probe.calls[1] = "checkRemoteAddress"
            /\ probe.exit = "banned" => IsBanned(expected)

\* The six identity-level checks pass for identity u, address addr and
\* registry conns.
PassesIdentityChecks(u, addr, conns, quotaTracking) ==
    /\ Len(u.HomeDir) > 0 /\ u.HomeDir[1] = "/"
    /\ ProtocolWebDAV \notin u.DeniedProtocols
    /\ LoginMethodPassword \notin u.DeniedLoginMethods
    /\ u.MaxSessions = 0 \/ Cardinality({c \in conns : c.username = u.Username}) < u.MaxSessions
    /\ ~(quotaTracking > 0 /\ u.OverlappedMappedPaths)
    /\ u.AllowedIP = {} \/ addr \in u.AllowedIP

\* The returns of a request that was rejected, and the statuses they write.
Rejected == {"limit", "banned", "hook", "nobasic", "mismatch", "provider", "validate", "fs"}

\* C18: a connection in the registry belongs to a request that is being
\* served, whose credentials the provider accepts, whose identity passed the
\* six checks of validateUser when they were made and whose filesystem was
\* got; only such a request updates the last login and calls the downstream
\* handler; a request answered 401, 403, 500 for the filesystem or 503 leaves
\* the registry as it is and calls neither.
C18_OnlyAdmittedRequestsRegister ==
    [][\A r \in Workers :
        /\ \A c \in connections' :
              /\ c.id \in Workers
              /\ pc'[c.id] = "serving"
              /\ c.username = user'[c.id].Username
              /\ \E u \in DOMAIN Users : user'[c.id] = Users[u]
              /\ reports'[c.id] = updateLoginMetrics(<<>>, remoteAddr'[c.id], NoError)
        /\ pc[r] \in {"isexpired", "verify", "cache"} /\ pc'[r] = "validate" =>
              /\ cred[r].username \in DOMAIN Users
              /\ cred[r].password \in AcceptedPasswords[cred[r].username]
              /\ user'[r] = Users[cred[r].username]
        /\ pc'[r] = "validate" => pc[r] \in {"isexpired", "verify", "cache", "validate"}
        /\ pc'[r] = "getfs" /\ pc[r] # "getfs" =>
              /\ pc[r] = "validate"
              /\ PassesIdentityChecks(user[r], remoteAddr[r], connections,
                                      config.QuotaTracking)
        /\ pc'[r] = "serving" /\ pc[r] # "serving" =>
              /\ pc[r] = "getfs"
              /\ InSeq("GetFilesystem", calls'[r])
              /\ connections' = connections \cup {[id |-> r, username |-> user[r].Username]}
        /\ pc'[r] = "done" /\ pc[r] # "done" /\ exit'[r] \in Rejected =>
              /\ pc[r] # "serving"
              /\ connections' = connections
              /\ resp'[r].status \in {StatusUnauthorized, StatusForbidden,
                                       StatusInternalServerError, StatusServiceUnavailable}
              /\ ~InSeq("Connections.Add", calls'[r])
              /\ ~InSeq("UpdateLastLogin", calls'[r])
              /\ ~InSeq("handler.ServeHTTP", calls'[r])
        /\ ( /\ pc'[r] # pc[r]
             /\ InSeq("UpdateLastLogin", calls'[r]) \/ InSeq("handler.ServeHTTP", calls'[r]) )
           => pc[r] = "serving" /\ Registered(r)
        /\ pc'[r] = "done" /\ pc[r] # "done" /\ exit'[r] \notin Rejected => pc[r] = "serving"]_vars

C18_Witness ==
    \E r, q \in Workers :
        /\ pc[r] = "serving" /\ Registered(r)
        /\ user[r] = Users["alice"]
        /\ pc[q] = "done" /\ exit[q] = "validate"
        /\ resp[q].status = StatusForbidden
        /\ resp[q].body = ErrSessions
        /\ connections = {[id |-> r, username |-> "alice"]}

\* The call of authenticate that worker r is in fails: its credentials meet a
\* cache entry with another password, or the provider refuses them.
AuthenticateFails(r) ==
    \/ cred[r].username \notin DOMAIN Users
    \/ cred[r].password \notin AcceptedPasswords[cred[r].username]

\* C19: every entry put into the cache holds a non-empty password that the
\* provider accepted for its username in the call of authenticate that puts
\* it; a call of authenticate that fails puts and overwrites nothing, and
\* changes the cache at most by removing an expired entry of its username.
C19_CacheHoldsVerifiedPasswords ==
    [][/\ \A u \in Usernames :
            cache'[u].present /\ cache'[u] # cache[u] =>
                \E r \in Workers :
                    /\ pc[r] = "cache" /\ pc'[r] = "validate"
                    /\ cred[r].username = u
                    /\ cache'[u].Password = cred[r].password
                    /\ cred[r].password # ""
                    /\ CheckUserAndPass(u, cred[r].password).err = NoError
       /\ \A r \in Workers :
            /\ pc[r] = "auth" /\ pc'[r] = "done" => cache' = cache
            /\ pc[r] \in {"lookup", "isexpired", "expired", "verify"} /\ pc'[r] # pc[r]
                  /\ AuthenticateFails(r) =>
                  \/ cache' = cache
                  \/ /\ Stale(cred[r].username)
                     /\ cache' = [cache EXCEPT ![cred[r].username] = NoEntry]]_vars

====
